---------------------------- MODULE Spec2Model ----------------------------
(***************************************************************************)
(* StreamShortcut (Cloudflare Workers): the Shortcut client (client.ts),   *)
(* the action handlers (handlers.ts) and the single-file worker variant.   *)
(*                                                                         *)
(* JavaScript strings are modelled as sequences of one-character strings,  *)
(* so that includes(), toLowerCase() and the regular expressions of        *)
(* resolveId are computed character by character.                          *)
(***************************************************************************)
EXTENDS Integers, Sequences, FiniteSets, TLC

VARIABLES
    idInput,      \* resolveId: the input string
    idResult,     \* resolveId: NotCalled, or the returned number / thrown error
    payload,      \* the JSON value request() returned for POST /stories/search
    normClient,   \* what searchStories (client.ts) makes of payload
    normWorker,   \* what normalizeSearchResponse (worker variant) makes of payload
    client,       \* the fields of the ShortcutClient object the calls are made on
    task,         \* the call being made: the function and its arguments
    remote,       \* the Shortcut workspace: its workflows, members and the token's member
    frame,        \* where the running call is suspended (its await) and its locals
    outstanding,  \* the fetches issued and not yet answered
    log,          \* the requests the running call has issued, in order
    resolved,     \* what resolveState / resolveMember returned to the running call,
                  \* and the answers of the remote side that were no JSON value
    outcome,      \* NotCalled, or what the call returned / threw
    httpRequest,  \* the request the worker's fetch handler was given
    httpResponse, \* NotCalled, or the Response of the fetch handler
    server        \* NoServer, or the McpServer created for the request

idVars == <<idInput, idResult>>
normVars == <<payload, normClient, normWorker>>
callVars == <<client, task, remote, frame, outstanding, log, resolved, outcome>>
httpVars == <<httpRequest, httpResponse, server>>
vars == <<idInput, idResult, payload, normClient, normWorker,
          client, task, remote, frame, outstanding, log, resolved, outcome,
          httpRequest, httpResponse, server>>

(***************************************************************************)
(* Bounds of the model.                                                    *)
(***************************************************************************)
\* resolveId inputs are concatenations of at most MaxFrags fragments.
MaxFrags == 4
\* and of at most MaxUrlParts whole identifiers (a story URL, an epic URL, sc-<n>).
MaxUrlParts == 3
\* A workspace in which state names recur has at most MaxDupWorkflows workflows.
MaxDupWorkflows == 3
\* A search response holds at most MaxItems stories.
MaxItems == 2
\* A workspace has at most MaxWorkflows workflows, with at most MaxStatesTotal states
\* between them, and at most MaxMembers members.
MaxWorkflows == 2
MaxStatesTotal == 3
MaxMembers == 3

(***************************************************************************)
(* Strings.                                                                *)
(***************************************************************************)
Digits == {"0", "1", "2", "3", "4", "5", "6", "7", "8", "9"}

UpperToLower ==
    [c \in {"A", "B", "C", "D", "E", "F", "G", "H", "I", "J", "K", "L", "M",
            "N", "O", "P", "Q", "R", "S", "T", "U", "V", "W", "X", "Y", "Z"} |->
        CASE c = "A" -> "a" [] c = "B" -> "b" [] c = "C" -> "c" [] c = "D" -> "d"
          [] c = "E" -> "e" [] c = "F" -> "f" [] c = "G" -> "g" [] c = "H" -> "h"
          [] c = "I" -> "i" [] c = "J" -> "j" [] c = "K" -> "k" [] c = "L" -> "l"
          [] c = "M" -> "m" [] c = "N" -> "n" [] c = "O" -> "o" [] c = "P" -> "p"
          [] c = "Q" -> "q" [] c = "R" -> "r" [] c = "S" -> "s" [] c = "T" -> "t"
          [] c = "U" -> "u" [] c = "V" -> "v" [] c = "W" -> "w" [] c = "X" -> "x"
          [] c = "Y" -> "y" [] c = "Z" -> "z"]

\* String.prototype.toLowerCase on one character, and on a string.
lowerChar(c) == IF c \in DOMAIN UpperToLower THEN UpperToLower[c] ELSE c
toLowerCase(s) == [i \in 1..Len(s) |-> lowerChar(s[i])]

\* sub occurs in s starting at index i (1-based).
occursAt(s, sub, i) ==
    /\ i >= 1
    /\ i + Len(sub) - 1 <= Len(s)
    /\ \A k \in 1..Len(sub) : s[i + k - 1] = sub[k]

\* String.prototype.toUpperCase on one character, and on a string.
upperChar(c) ==
    IF \E u \in DOMAIN UpperToLower : UpperToLower[u] = c
    THEN CHOOSE u \in DOMAIN UpperToLower : UpperToLower[u] = c
    ELSE c
toUpperCase(s) == [i \in 1..Len(s) |-> upperChar(s[i])]

\* String.prototype.includes: the empty string is included in every string.
includes(s, sub) == \E i \in 1..(Len(s) - Len(sub) + 1) : occursAt(s, sub, i)

\* Concatenation of a sequence of strings.
RECURSIVE concat(_)
concat(ss) == IF ss = <<>> THEN <<>> ELSE Head(ss) \o concat(Tail(ss))

\* Sequences over S of length at most n.
RECURSIVE SeqsUpTo(_, _)
SeqsUpTo(S, n) ==
    IF n = 0 THEN {<<>>}
    ELSE LET shorter == SeqsUpTo(S, n - 1)
         IN shorter \cup {Append(q, x) : q \in {r \in shorter : Len(r) = n - 1}, x \in S}

(***************************************************************************)
(* resolveId (client.ts 185-199; the worker variant 57-68 is identical).   *)
(***************************************************************************)
NotCalled == [kind |-> "notcalled"]
Returned(v) == [kind |-> "ok", val |-> v]
Threw(msg) == [kind |-> "error", msg |-> msg]

\* The length of the maximal run of digits of s starting at i: what (\d+), which is
\* greedy and followed by nothing, captures.
RECURSIVE digitRunLen(_, _)
digitRunLen(s, i) ==
    IF i <= Len(s) /\ s[i] \in Digits THEN 1 + digitRunLen(s, i + 1) ELSE 0

DigitVal(c) ==
    CASE c = "0" -> 0 [] c = "1" -> 1 [] c = "2" -> 2 [] c = "3" -> 3 [] c = "4" -> 4
      [] c = "5" -> 5 [] c = "6" -> 6 [] c = "7" -> 7 [] c = "8" -> 8 [] c = "9" -> 9

\* parseInt(digits, 10) of a non-empty string of decimal digits (exact: the digit runs
\* of the model are a few digits long, far below 2^53).
RECURSIVE parseInt(_)
parseInt(ds) ==
    IF ds = <<>> THEN 0
    ELSE 10 * parseInt(SubSeq(ds, 1, Len(ds) - 1)) + DigitVal(ds[Len(ds)])

s_shortcut_com_slash == <<"s", "h", "o", "r", "t", "c", "u", "t", ".", "c", "o", "m", "/">>
s_slash_story_slash == <<"/", "s", "t", "o", "r", "y", "/">>
s_slash_epic_slash == <<"/", "e", "p", "i", "c", "/">>

\* /shortcut\.com\/[^/]+\/<word>\/(\d+)/i tried at start index i with the [^/]+ run
\* taken n characters long (low is the lower-cased s: the i flag): the index of the
\* first captured digit, or 0 when the expression does not match that way.
urlMatchAt(s, low, kindLit, i, n) ==
    LET segStart == i + Len(s_shortcut_com_slash)
        litStart == segStart + n
        digStart == litStart + Len(kindLit)
    IN IF /\ occursAt(low, s_shortcut_com_slash, i)
          /\ n >= 1
          /\ segStart + n - 1 <= Len(s)
          /\ \A k \in segStart..(segStart + n - 1) : s[k] # "/"
          /\ occursAt(low, kindLit, litStart)
          /\ digitRunLen(s, digStart) >= 1
       THEN digStart
       ELSE 0

\* String.prototype.match with that expression: the leftmost start index wins, and at
\* that index the longest [^/]+ run that lets the rest match (greedy, backtracking).
\* The captured group, or <<>> when nothing matches.
urlMatch(s, kindLit) ==
    LET low == toLowerCase(s)
        hostAt == {i \in 1..Len(s) : occursAt(low, s_shortcut_com_slash, i)}
        hits == {p \in hostAt \X (1..Len(s)) :
                    urlMatchAt(s, low, kindLit, p[1], p[2]) # 0}
    IN IF hits = {} THEN <<>>
       ELSE LET i == CHOOSE a \in {p[1] : p \in hits} : \A p \in hits : a <= p[1]
                n == CHOOSE b \in {p[2] : p \in {q \in hits : q[1] = i}} :
                        \A p \in {q \in hits : q[1] = i} : b >= p[2]
                d == urlMatchAt(s, low, kindLit, i, n)
            IN SubSeq(s, d, d + digitRunLen(s, d) - 1)

\* input.match(/(\d+)/): the first maximal run of digits, or <<>>.
numMatch(s) ==
    LET starts == {i \in 1..Len(s) : s[i] \in Digits}
    IN IF starts = {} THEN <<>>
       ELSE LET i == CHOOSE a \in starts : \A b \in starts : a <= b
            IN SubSeq(s, i, i + digitRunLen(s, i) - 1)

s_Invalid_ID == "Invalid ID: "

\* resolveId with the plain digit run tried before the URL patterns.
resolveId_digitsFirst(input) ==
    IF numMatch(input) # <<>> THEN Returned(parseInt(numMatch(input)))
    ELSE Threw(<<s_Invalid_ID, input>>)

\* resolveId without the plain digit run.
resolveId_urlOnly(input) ==
    IF urlMatch(input, s_slash_story_slash) # <<>>
    THEN Returned(parseInt(urlMatch(input, s_slash_story_slash)))
    ELSE IF urlMatch(input, s_slash_epic_slash) # <<>>
    THEN Returned(parseInt(urlMatch(input, s_slash_epic_slash)))
    ELSE Threw(<<s_Invalid_ID, input>>)

\* resolveId with the epic URL pattern tried before the story URL pattern.
resolveId_epicFirst(input) ==
    IF urlMatch(input, s_slash_epic_slash) # <<>>
    THEN Returned(parseInt(urlMatch(input, s_slash_epic_slash)))
    ELSE IF urlMatch(input, s_slash_story_slash) # <<>>
    THEN Returned(parseInt(urlMatch(input, s_slash_story_slash)))
    ELSE IF numMatch(input) # <<>> THEN Returned(parseInt(numMatch(input)))
    ELSE Threw(<<s_Invalid_ID, input>>)

resolveId(input) ==
    LET storyMatch == urlMatch(input, s_slash_story_slash)
        epicUrlMatch == urlMatch(input, s_slash_epic_slash)
        digitsMatch == numMatch(input)
    IN IF storyMatch # <<>> THEN Returned(parseInt(storyMatch))
       ELSE IF epicUrlMatch # <<>> THEN Returned(parseInt(epicUrlMatch))
       ELSE IF digitsMatch # <<>> THEN Returned(parseInt(digitsMatch))
       ELSE Threw(<<s_Invalid_ID, input>>)

(***************************************************************************)
(* Inputs of resolveId: concatenations of URL fragments.                   *)
(***************************************************************************)
IdFragments ==
    { s_shortcut_com_slash,
      <<"o", "1", "/">>,
      <<"s", "t", "o", "r", "y", "/">>,
      <<"S", "T", "O", "R", "Y", "/">>,
      <<"e", "p", "i", "c", "/">>,
      <<"7">>,
      <<"-">> }

IdInputs == {concat(fs) : fs \in SeqsUpTo(IdFragments, MaxFrags)}

\* Inputs that hold several identifiers: a story URL (7), an epic URL (3), a prefixed
\* id (sc-5) and text without a digit.
u_story_7 == s_shortcut_com_slash \o <<"o", "/", "s", "t", "o", "r", "y", "/", "7">>
u_epic_3 == s_shortcut_com_slash \o <<"o", "/", "e", "p", "i", "c", "/", "3">>
u_sc_5 == <<"s", "c", "-", "5">>
u_query == <<"?", "a", "=">>
UrlFragments == {u_story_7, u_epic_3, u_sc_5, u_query}
UrlInputs == {concat(fs) : fs \in SeqsUpTo(UrlFragments, MaxUrlParts)}

\* The parts of the state a specification does not use.
IdUnused == idInput = <<>> /\ idResult = NotCalled
NormUnused == payload = <<>> /\ normClient = NotCalled /\ normWorker = NotCalled
NoTask == [fn |-> "none"]
NoServer == [created |-> FALSE]
HttpUnused == httpRequest = <<>> /\ httpResponse = NotCalled /\ server = NoServer
CallUnused ==
    /\ client = <<>>
    /\ task = NoTask
    /\ remote = <<>>
    /\ frame = <<>>
    /\ outstanding = {}
    /\ log = <<>>
    /\ resolved = <<>>
    /\ outcome = NotCalled

IdInit ==
    /\ idInput \in IdInputs \cup UrlInputs
    /\ idResult = NotCalled
    /\ NormUnused
    /\ CallUnused
    /\ HttpUnused

\* A caller applies resolveId to the input.
CallResolveId ==
    /\ idResult = NotCalled
    /\ idResult' = resolveId(idInput)
    /\ UNCHANGED <<idInput, normVars, callVars, httpVars>>

IdNext == CallResolveId

SpecId == IdInit /\ [][IdNext]_vars

(***************************************************************************)
(* Workflow states and ShortcutClient.resolveState (client.ts 63-96; the   *)
(* worker variant 97-128 runs the same tiers on the same data).            *)
(***************************************************************************)
\* number | null results of the resolvers.
NotFound == [found |-> FALSE]
Found(id) == [found |-> TRUE, id |-> id]

\* Array.prototype.find, given the callback's verdict on each element: the index of
\* the first element the callback accepts, or 0.
findIndex(verdicts) ==
    LET hits == {i \in 1..Len(verdicts) : verdicts[i]}
    IN IF hits = {} THEN 0 ELSE CHOOSE i \in hits : \A j \in hits : i <= j

s_done == <<"d", "o", "n", "e">>
s_complete == <<"c", "o", "m", "p", "l", "e", "t", "e">>
s_completed == <<"c", "o", "m", "p", "l", "e", "t", "e", "d">>
s_finished == <<"f", "i", "n", "i", "s", "h", "e", "d">>
s_deployed == <<"d", "e", "p", "l", "o", "y", "e", "d">>
s_in_progress == <<"i", "n", " ", "p", "r", "o", "g", "r", "e", "s", "s">>
s_started == <<"s", "t", "a", "r", "t", "e", "d">>
s_doing == <<"d", "o", "i", "n", "g">>
s_wip == <<"w", "i", "p">>
s_in_prog == <<"i", "n", " ", "p", "r", "o", "g">>
s_ready == <<"r", "e", "a", "d", "y">>
s_todo == <<"t", "o", "d", "o">>
s_to_do == <<"t", "o", " ", "d", "o">>
s_backlog == <<"b", "a", "c", "k", "l", "o", "g">>
s_open == <<"o", "p", "e", "n">>

\* The alias table without "backlog" among the synonyms of "ready".
aliases_noBacklog ==
    << [canonical |-> s_done,
        alts |-> <<s_done, s_complete, s_completed, s_finished, s_deployed>>],
       [canonical |-> s_in_progress,
        alts |-> <<s_in_progress, s_started, s_doing, s_wip, s_in_prog>>],
       [canonical |-> s_ready,
        alts |-> <<s_ready, s_todo, s_to_do, s_open>>] >>

\* The alias table, in the order Object.entries enumerates it (client.ts 78-82).
aliases ==
    << [canonical |-> s_done,
        alts |-> <<s_done, s_complete, s_completed, s_finished, s_deployed>>],
       [canonical |-> s_in_progress,
        alts |-> <<s_in_progress, s_started, s_doing, s_wip, s_in_prog>>],
       [canonical |-> s_ready,
        alts |-> <<s_ready, s_todo, s_to_do, s_backlog, s_open>>] >>

\* The first loop (client.ts 67-75): per workflow, an exact match and then a partial
\* match, before the next workflow is looked at.
RECURSIVE scanExactPartial(_, _)
scanExactPartial(workflows, lower) ==
    IF workflows = <<>> THEN NotFound
    ELSE LET wf == Head(workflows)
             exact == findIndex([i \in 1..Len(wf.states) |->
                          toLowerCase(wf.states[i].name) = lower])
             partial == findIndex([i \in 1..Len(wf.states) |->
                            includes(toLowerCase(wf.states[i].name), lower)])
         IN IF exact # 0 THEN Found(wf.states[exact].id)
            ELSE IF partial # 0 THEN Found(wf.states[partial].id)
            ELSE scanExactPartial(Tail(workflows), lower)

\* The inner loop of the alias tier comparing the state names as they are written.
RECURSIVE scanCanonical_caseSensitive(_, _)
scanCanonical_caseSensitive(workflows, canonical) ==
    IF workflows = <<>> THEN NotFound
    ELSE LET wf == Head(workflows)
             match == findIndex([i \in 1..Len(wf.states) |->
                          includes(wf.states[i].name, canonical)])
         IN IF match # 0 THEN Found(wf.states[match].id)
            ELSE scanCanonical_caseSensitive(Tail(workflows), canonical)

\* The inner loop of the alias tier (client.ts 86-91).
RECURSIVE scanCanonical(_, _)
scanCanonical(workflows, canonical) ==
    IF workflows = <<>> THEN NotFound
    ELSE LET wf == Head(workflows)
             match == findIndex([i \in 1..Len(wf.states) |->
                          includes(toLowerCase(wf.states[i].name), canonical)])
         IN IF match # 0 THEN Found(wf.states[match].id)
            ELSE scanCanonical(Tail(workflows), canonical)

\* The alias test in one direction only: a synonym contained in the name.
aliasMatches_oneWay(alts, lower) ==
    \E k \in 1..Len(alts) : includes(lower, alts[k])

\* alts.some((a) => lower.includes(a) || a.includes(lower)) (client.ts 85).
aliasMatches(alts, lower) ==
    \E k \in 1..Len(alts) : includes(lower, alts[k]) \/ includes(alts[k], lower)

\* The outer loop of the alias tier (client.ts 84-93), from table entry k on.
RECURSIVE scanAliases(_, _, _)
scanAliases(workflows, lower, k) ==
    IF k > Len(aliases) THEN NotFound
    ELSE IF aliasMatches(aliases[k].alts, lower)
            /\ scanCanonical(workflows, aliases[k].canonical).found
    THEN scanCanonical(workflows, aliases[k].canonical)
    ELSE scanAliases(workflows, lower, k + 1)

\* resolveState once getWorkflows has returned workflows (client.ts 65-95).
resolveStateIn(workflows, stateName) ==
    LET lower == toLowerCase(stateName)
        direct == scanExactPartial(workflows, lower)
    IN IF direct.found THEN direct ELSE scanAliases(workflows, lower, 1)

(***************************************************************************)
(* Members and ShortcutClient.resolveMember (client.ts 121-137; the worker *)
(* variant 131-149).                                                       *)
(***************************************************************************)
s_me == <<"m", "e">>

\* resolveMember without its "me" branch.
resolveMemberIsMe_never(input) == FALSE

\* The branch of resolveMember (client.ts 122): the current member is asked for.
resolveMemberIsMe(input) == input = s_me

\* resolveMember preferring a member whose name or handle equals the input.
resolveMemberIn_exactFirst(members, input) ==
    LET lower == toLowerCase(input)
        exact == findIndex([i \in 1..Len(members) |->
                     \/ toLowerCase(members[i].profile.name) = lower
                     \/ toLowerCase(members[i].profile.mention_name) = lower])
        match == findIndex([i \in 1..Len(members) |->
                     \/ includes(toLowerCase(members[i].profile.name), lower)
                     \/ includes(toLowerCase(members[i].profile.mention_name), lower)])
    IN IF exact # 0 THEN Found(members[exact].id)
       ELSE IF match # 0 THEN Found(members[match].id) ELSE NotFound

\* resolveMember once getMembers has returned members (client.ts 128-136).
resolveMemberIn(members, input) ==
    LET lower == toLowerCase(input)
        match == findIndex([i \in 1..Len(members) |->
                     \/ includes(toLowerCase(members[i].profile.name), lower)
                     \/ includes(toLowerCase(members[i].profile.mention_name), lower)])
    IN IF match # 0 THEN Found(members[match].id) ELSE NotFound

(***************************************************************************)
(* JSON values, as ShortcutClient.request returns them (client.ts 48-55):  *)
(* null for an empty body, the parsed value, or the body text itself when  *)
(* it is not JSON.                                                         *)
(***************************************************************************)
Undefined == [tag |-> "undefined"]
JNull == [tag |-> "null"]
JBool(b) == [tag |-> "boolean", b |-> b]
JNum(n) == [tag |-> "number", n |-> n]
JStr(s) == [tag |-> "string", s |-> s]
JArr(items) == [tag |-> "array", items |-> items]
\* fields: a function from property names to JSON values.
JObj(fields) == [tag |-> "object", fields |-> fields]

\* ToBoolean.
truthy(v) ==
    CASE v.tag = "null" -> FALSE
      [] v.tag = "undefined" -> FALSE
      [] v.tag = "boolean" -> v.b
      [] v.tag = "number" -> v.n # 0
      [] v.tag = "string" -> v.s # <<>>
      [] OTHER -> TRUE

isArray(v) == v.tag = "array"
\* typeof v === "object" (null, arrays and objects).
typeofObject(v) == v.tag \in {"null", "array", "object"}
\* The in operator throws a TypeError when its right operand is not an object.
inThrows(v) == v.tag \notin {"array", "object"}
\* "data" in v, for an object or an array (an array has no such property).
hasData(v) == v.tag = "object" /\ "data" \in DOMAIN v.fields

s_TypeError_in == "Cannot use 'in' operator to search for 'data'"

\* The normalisation at the end of ShortcutClient.searchStories (client.ts 165-169).
searchStoriesNormalize(response) ==
    IF isArray(response) THEN Returned(response.items)
    ELSE IF ~truthy(response) THEN Returned(<<>>)
    ELSE IF inThrows(response) THEN Threw(s_TypeError_in)
    ELSE IF hasData(response) /\ isArray(response.fields["data"])
    THEN Returned(response.fields["data"].items)
    ELSE Returned(<<>>)

\* normalizeSearchResponse of the single-file worker (183-190).
normalizeSearchResponse(response) ==
    IF isArray(response) THEN Returned(response.items)
    ELSE IF truthy(response) /\ typeofObject(response) /\ hasData(response)
            /\ isArray(response.fields["data"])
    THEN Returned(response.fields["data"].items)
    ELSE Returned(<<>>)

s_oops == <<"o", "o", "p", "s">>

StoryPool == {[id |-> 1], [id |-> 2]}
JArrays == {JArr(items) : items \in SeqsUpTo(StoryPool, MaxItems)}
JScalars == {JNull, JBool(TRUE), JBool(FALSE), JNum(0), JNum(5), JStr(<<>>), JStr(s_oops)}
JObjects ==
    {JObj(f) : f \in [{"total"} -> {JNum(1)}] \cup {<<>>}}
    \cup {JObj(f) : f \in [{"data"} -> JScalars \cup JArrays]}
    \cup {JObj([data |-> d, total |-> JNum(1)]) : d \in JScalars \cup JArrays}
Payloads == JScalars \cup JArrays \cup JObjects

NormInit ==
    /\ payload \in Payloads
    /\ normClient = NotCalled
    /\ normWorker = NotCalled
    /\ IdUnused
    /\ CallUnused
    /\ HttpUnused

\* searchStories receives payload from request() and normalises it.
CallSearchStoriesNormalize ==
    /\ normClient = NotCalled
    /\ normClient' = searchStoriesNormalize(payload)
    /\ UNCHANGED <<payload, normWorker, idVars, callVars, httpVars>>

\* The worker variant normalises the same payload.
CallNormalizeSearchResponse ==
    /\ normWorker = NotCalled
    /\ normWorker' = normalizeSearchResponse(payload)
    /\ UNCHANGED <<payload, normClient, idVars, callVars, httpVars>>

NormNext == CallSearchStoriesNormalize \/ CallNormalizeSearchResponse

SpecNorm == NormInit /\ [][NormNext]_vars

(***************************************************************************)
(* ShortcutClient.request (client.ts 25-56): a fetch is issued, and the    *)
(* call resumes when the remote side answers it.                           *)
(***************************************************************************)
NoBody == [present |-> FALSE]
Body(fields) == [present |-> TRUE, fields |-> fields]
NoRequest == [method |-> "none"]
Req(method, path, body) == [method |-> method, path |-> path, body |-> body]

\* A path of the API: `${lit}${id}${tail}` (id 0: none), or the raw path of the api
\* action.
Path(lit, id, tail) == [lit |-> lit, id |-> id, tail |-> tail, raw |-> <<>>]
RawPath(raw) == [lit |-> "", id |-> 0, tail |-> "", raw |-> raw]

\* getWorkflows, getMembers, getCurrentMember (client.ts 59-61, 113-119).
m_GET == <<"G", "E", "T">>
m_POST == <<"P", "O", "S", "T">>
m_PUT == <<"P", "U", "T">>
GetWorkflows == Req(m_GET, Path("/workflows", 0, ""), NoBody)
GetMembers == Req(m_GET, Path("/members", 0, ""), NoBody)
GetCurrentMember == Req(m_GET, Path("/member", 0, ""), NoBody)

IdleFrame == [at |-> "idle"]

\* new ShortcutClient(token) (client.ts 14-20): the object has the one field.
s_tok == <<"t", "o", "k">>
NoClient == [created |-> FALSE]
ShortcutClient(token) == [token |-> token]

\* A suspended call: the caller (top: the client method itself, or handleAction), the
\* caller's await (at), the client method awaited (call) with its argument (arg), and
\* the caller's locals (ctx).
Fr(top, at, call, arg, ctx) ==
    [top |-> top, at |-> at, call |-> call, arg |-> arg, ctx |-> ctx]

\* The call suspends at an await with req in flight, or ends with an outcome.
Await(fr, req) == [frame |-> fr, req |-> req, outcome |-> NotCalled]
Finish(out) == [frame |-> IdleFrame, req |-> NoRequest, outcome |-> out]

s_rate_limit == "Rate limit exceeded. Please try again later."
apiError(status, text) == <<"API error (", status, "): ", text>>
HttpErrors == {[status |-> 404, text |-> "Not Found"], [status |-> 500, text |-> "Oops"]}

(***************************************************************************)
(* The workspaces of the model.                                            *)
(***************************************************************************)
n_Done == <<"D", "o", "n", "e">>
n_Undone == <<"U", "n", "d", "o", "n", "e">>
n_In_Progress == <<"I", "n", " ", "P", "r", "o", "g", "r", "e", "s", "s">>
n_Backlog == <<"B", "a", "c", "k", "l", "o", "g">>
n_Ready == <<"R", "e", "a", "d", "y">>
StateNamePool == {n_Done, n_Undone, n_In_Progress, n_Backlog, n_Ready}

\* ShortcutWorkflowState.type (types.ts 37) of the pool's states.
stateType(name) ==
    IF name \in {n_Backlog, n_Ready} THEN "unstarted"
    ELSE IF name = n_In_Progress THEN "started"
    ELSE "done"

\* The lists of at most w lists of state names, with n names at most between them.
RECURSIVE NameLists(_, _)
NameLists(w, n) ==
    IF w = 0 THEN {<<>>}
    ELSE {<<>>} \cup
         UNION {{<<names>> \o rest : rest \in NameLists(w - 1, n - Len(names))} :
                    names \in SeqsUpTo(StateNamePool, n)}

\* ShortcutWorkflow[] (types.ts 34-45): state k of workflow w has the id 10 * w + k,
\* so every state of a workspace has an id of its own, and none is 0.
mkWorkflows(nameLists) ==
    [w \in 1..Len(nameLists) |->
        [id |-> w,
         states |-> [k \in 1..Len(nameLists[w]) |->
                        [id |-> 10 * w + k,
                         name |-> nameLists[w][k],
                         type |-> stateType(nameLists[w][k])]]]]

WorkflowLists == {mkWorkflows(nl) : nl \in NameLists(MaxWorkflows, MaxStatesTotal)}

p_Joanna == [name |-> <<"J", "o", "a", "n", "n", "a">>, mention_name |-> <<"j", "o">>]
p_Ann == [name |-> <<"A", "n", "n">>, mention_name |-> <<"a", "n", "n">>]
p_James == [name |-> <<"J", "a", "m", "e", "s">>, mention_name |-> <<"J", "i", "m">>]
ProfilePool == {p_Joanna, p_Ann, p_James}

\* ShortcutMember[] (types.ts 24-32): the member at position i has the id <<"m", i>>.
mkMembers(profiles) ==
    [i \in 1..Len(profiles) |-> [id |-> <<"m", i>>, profile |-> profiles[i]]]

MemberLists == {mkMembers(ps) : ps \in SeqsUpTo(ProfilePool, MaxMembers)}

\* The member the token belongs to (GET /member).
CurrentMember == [id |-> <<"m", 0>>, profile |-> p_Ann]

(***************************************************************************)
(* What the remote side answers with a 2xx status.                         *)
(***************************************************************************)
\* ShortcutStory and ShortcutEpic (types.ts 53-88), as far as the handlers read them.
storyOf(id) ==
    [tag |-> "object", id |-> id, name |-> "Story", workflow_state_id |-> 11,
     app_url |-> <<"https://app.shortcut.com/org/story/", id>>, comments |-> <<>>]
epicOf(id) ==
    [tag |-> "object", id |-> id, name |-> "Epic", state |-> "to do",
     app_url |-> <<"https://app.shortcut.com/org/epic/", id>>]

SearchAnswers ==
    {JArr(<<>>), JArr(<<[id |-> 1]>>), JObj([data |-> JArr(<<[id |-> 1]>>)]),
     JNull, JStr(s_oops)}

okValues(req) ==
    CASE req.path.raw # <<>> -> {JNull, JArr(<<>>)}
      [] req = GetWorkflows -> {remote.workflows}
      [] req = GetMembers -> {remote.members}
      [] req = GetCurrentMember -> {remote.me}
      [] req.path.lit = "/stories/search" -> SearchAnswers
      [] req.path.lit = "/stories/" /\ req.path.tail = "/comments" -> {JNull}
      [] req.path.lit = "/stories/" /\ req.method = m_GET -> {storyOf(req.path.id), JNull}
      [] req.path.lit = "/stories/" /\ req.method = m_PUT -> {storyOf(req.path.id)}
      [] req.path.lit = "/stories" -> {storyOf(900)}
      [] req.path.lit = "/epics/" -> {epicOf(req.path.id), JNull}
      [] OTHER -> {}

(***************************************************************************)
(* The client methods the handlers await (client.ts 59-179).               *)
(***************************************************************************)
\* workflows.flatMap((wf) => wf.states.map((s) => s.name)) (client.ts 109).
RECURSIVE allStateNames(_)
allStateNames(workflows) ==
    IF workflows = <<>> THEN <<>>
    ELSE [k \in 1..Len(Head(workflows).states) |-> Head(workflows).states[k].name]
            \o allStateNames(Tail(workflows))

\* getStateName once getWorkflows has returned (client.ts 100-104).
RECURSIVE stateNameIn(_, _)
stateNameIn(workflows, stateId) ==
    IF workflows = <<>> THEN <<"String", stateId>>
    ELSE LET wf == Head(workflows)
             state == findIndex([k \in 1..Len(wf.states) |-> wf.states[k].id = stateId])
         IN IF state # 0 THEN wf.states[state].name
            ELSE stateNameIn(Tail(workflows), stateId)

\* What the awaited client method makes of the body v of a 2xx answer.
clientResult(fr, v) ==
    CASE fr.call = "resolveState" -> Returned(resolveStateIn(v, fr.arg))
      [] fr.call = "resolveMember.me" -> Returned(Found(v.id))
      [] fr.call = "resolveMember.list" -> Returned(resolveMemberIn(v, fr.arg))
      [] fr.call = "getAllStateNames" -> Returned(allStateNames(v))
      [] fr.call = "getStateName" -> Returned(stateNameIn(v, fr.arg))
      [] fr.call = "searchStories" -> searchStoriesNormalize(v)
      [] OTHER -> Returned(v)

s_TypeError_null == "Cannot read properties of null"

\* The awaits of the handlers after which a property of the value returned is read:
\* member.id (handlers.ts 90, 97), workflows.length (201), story.id (169, 217).
readsResult == {"search.default", "search.ownerMe", "create.default", "update.put",
                "create.post"}

\* What the awaited client method, and the handler's next statement, make of the null
\* that request() returns for an empty body (client.ts 48-49): the client methods that
\* iterate over the body or read its id (client.ts 66, 101, 109, 124, 130) throw a
\* TypeError, and so do the handlers' statements of readsResult.
nullResult(fr) ==
    IF fr.call \in {"resolveState", "getStateName", "getAllStateNames",
                   "resolveMember.me", "resolveMember.list"}
    THEN Threw(s_TypeError_null)
    ELSE IF fr.at \in readsResult THEN Threw(s_TypeError_null)
    ELSE clientResult(fr, JNull)

\* A request answered with a status that makes request() throw, for the record.
requestFailed(req, status) == [fn |-> "request", arg |-> req, status |-> status]

\* What a resolver returned, for the record of the running call.
resolverEvent(fr, r) ==
    IF r.kind = "ok" /\ fr.call \in {"resolveState", "resolveMember.me", "resolveMember.list"}
    THEN <<[fn |-> fr.call, arg |-> fr.arg, result |-> r.val]>>
    ELSE <<>>

\* client.ts 121-127: "me" asks for the current member, anything else for the list.
\* The caller top awaits resolveMember(input) at its await at, with the locals ctx.
resolveMemberStart(top, at, input, ctx) ==
    IF resolveMemberIsMe(input)
    THEN Await(Fr(top, at, "resolveMember.me", input, ctx), GetCurrentMember)
    ELSE Await(Fr(top, at, "resolveMember.list", input, ctx), GetMembers)

(***************************************************************************)
(* The action handlers (handlers.ts).  A handler runs up to its next await *)
(* and suspends there; the locals it keeps across the await are            *)
(* ctx = [p: the params, input: the request body being built, num: the     *)
(* resolved id, obj: the story or epic fetched].                           *)
(***************************************************************************)
Ctx(p) == [p |-> p, input |-> <<>>, num |-> 0, obj |-> Undefined]

\* input[k] = v.
setField(input, k, v) ==
    [x \in DOMAIN input \cup {k} |-> IF x = k THEN v ELSE input[x]]
withField(ctx, k, v) == [ctx EXCEPT !.input = setField(ctx.input, k, v)]

\* if (stateId) / if (memberId) on what a resolver returned: an id or null.
stateTruthy(v) == v.found /\ v.id # 0
memberTruthy(v) == v.found /\ v.id # <<>>

\* handlers.ts 74 and 75-77: the ToolResult of a handler that returned text, and of a
\* thrown error ("Error: " + message).
okResult(text) == Returned([content |-> text])
errorResult(message) ==
    Returned([content |-> [kind |-> "error", message |-> message], isError |-> TRUE])
reply(text) == Finish(okResult(text))
fail(message) == Finish(errorResult(message))

\* formatters.ts formatStoryList: "No stories found." for an empty list.
formatStoryList(stories) ==
    IF stories = <<>> THEN [kind |-> "noStories"]
    ELSE [kind |-> "storyList", stories |-> stories]

\* Array.prototype.slice(0, n).
slice0(seq, n) == [i \in 1..(IF Len(seq) < n THEN Len(seq) ELSE n) |-> seq[i]]

\* handlers.ts 112: const stories = await client.searchStories(searchParams).
searchPost(ctx) ==
    Await(Fr("handleAction", "search.post", "searchStories", <<>>, ctx),
          Req(m_POST, Path("/stories/search", 0, ""), Body(ctx.input)))

\* handlers.ts 106-109.
searchRest(ctx) ==
    LET query == ctx.p.query.fields
        c1 == IF truthy(query.epic) THEN withField(ctx, "epic_ids", <<query.epic>>) ELSE ctx
        c2 == IF truthy(query.iteration)
              THEN withField(c1, "iteration_ids", <<query.iteration>>) ELSE c1
        c3 == IF truthy(query.type) THEN withField(c2, "story_type", query.type) ELSE c2
        c4 == IF query.archived # Undefined
              THEN withField(c3, "archived", query.archived) ELSE c3
    IN searchPost(c4)

\* handlers.ts 102-105.
searchState(ctx) ==
    LET query == ctx.p.query.fields
    IN IF truthy(query.state)
       THEN Await(Fr("handleAction", "search.state", "resolveState", query.state.s, ctx),
                  GetWorkflows)
       ELSE searchRest(ctx)

\* handlers.ts 81-101.
handleSearch(ctx) ==
    LET query == ctx.p.query
    IN IF ~truthy(query)
       THEN Await(Fr("handleAction", "search.default", "getCurrentMember", <<>>, ctx),
                  GetCurrentMember)
       ELSE IF query.tag = "string" THEN searchPost(withField(ctx, "query", query))
       ELSE IF query.fields.owner = JStr(s_me)
       THEN Await(Fr("handleAction", "search.ownerMe", "getCurrentMember", <<>>, ctx),
                  GetCurrentMember)
       ELSE IF truthy(query.fields.owner)
       THEN resolveMemberStart("handleAction", "search.owner", query.fields.owner.s, ctx)
       ELSE searchState(ctx)

\* handlers.ts 116-118.
handleGet(ctx) ==
    LET storyId == resolveId(ctx.p.id.s)
    IN IF storyId.kind = "error" THEN fail(storyId.msg)
       ELSE Await(Fr("handleAction", "get.story", "getStory", <<>>,
                     [ctx EXCEPT !.num = storyId.val]),
                  Req(m_GET, Path("/stories/", storyId.val, ""), NoBody))

\* handlers.ts 166-168.
updatePut(ctx) ==
    IF DOMAIN ctx.input = {} THEN reply([kind |-> "noUpdates"])
    ELSE Await(Fr("handleAction", "update.put", "updateStory", <<>>, ctx),
               Req(m_PUT, Path("/stories/", ctx.num, ""), Body(ctx.input)))

\* handleUpdate going on to its PUT without the owner that was not found.
updateOwnerResolved_soft(ctx, memberId) ==
    IF memberTruthy(memberId) THEN updatePut(withField(ctx, "owner_ids", <<memberId.id>>))
    ELSE updatePut(ctx)

\* handlers.ts 161-162.
updateOwnerResolved(ctx, memberId) ==
    IF memberTruthy(memberId) THEN updatePut(withField(ctx, "owner_ids", <<memberId.id>>))
    ELSE reply([kind |-> "memberNotFound", owner |-> ctx.p.owner.s])

\* handlers.ts 152-164.
updateRest(ctx) ==
    LET updates == ctx.p
        c1 == IF updates.estimate # Undefined
              THEN withField(ctx, "estimate", updates.estimate) ELSE ctx
        c2 == IF truthy(updates.name) THEN withField(c1, "name", updates.name) ELSE c1
        c3 == IF truthy(updates.type) THEN withField(c2, "story_type", updates.type) ELSE c2
    IN IF updates.owner = Undefined THEN updatePut(c3)
       ELSE IF updates.owner = JNull THEN updatePut(withField(c3, "owner_ids", <<>>))
       ELSE resolveMemberStart("handleAction", "update.owner", updates.owner.s, c3)

\* handlers.ts 128-143.
handleUpdate(ctx) ==
    LET storyId == resolveId(ctx.p.id.s)
        c == [ctx EXCEPT !.num = storyId.val]
    IN IF storyId.kind = "error" THEN fail(storyId.msg)
       ELSE IF truthy(ctx.p.state)
       THEN Await(Fr("handleAction", "update.state", "resolveState", ctx.p.state.s, c),
                  GetWorkflows)
       ELSE updateRest(c)

\* handlers.ts 172-178.
handleComment(ctx) ==
    LET storyId == resolveId(ctx.p.id.s)
    IN IF storyId.kind = "error" THEN fail(storyId.msg)
       ELSE Await(Fr("handleAction", "comment.post", "addComment", <<>>,
                     [ctx EXCEPT !.num = storyId.val]),
                  Req(m_POST, Path("/stories/", storyId.val, "/comments"),
                      Body([text |-> ctx.p.body])))

\* handlers.ts 216.
createPost(ctx) ==
    Await(Fr("handleAction", "create.post", "createStory", <<>>, ctx),
          Req(m_POST, Path("/stories", 0, ""), Body(ctx.input)))

\* handleCreate posting the story without waiting for the owner's resolution.
createRest_ownerSkipped(ctx) ==
    LET options == ctx.p
        c1 == IF truthy(options.type) THEN withField(ctx, "story_type", options.type) ELSE ctx
        c2 == IF options.estimate # Undefined
              THEN withField(c1, "estimate", options.estimate) ELSE c1
    IN createPost(c2)

\* handlers.ts 207-214.
createRest(ctx) ==
    LET options == ctx.p
        c1 == IF truthy(options.type) THEN withField(ctx, "story_type", options.type) ELSE ctx
        c2 == IF options.estimate # Undefined
              THEN withField(c1, "estimate", options.estimate) ELSE c1
        c3 == IF truthy(options.epic) THEN withField(c2, "epic_id", options.epic) ELSE c2
    IN IF truthy(options.owner)
       THEN resolveMemberStart("handleAction", "create.owner", options.owner.s, c3)
       ELSE createPost(c3)

\* handlers.ts 182-200.
handleCreate(ctx) ==
    LET c == withField(ctx, "name", ctx.p.name)
    IN IF truthy(ctx.p.state)
       THEN Await(Fr("handleAction", "create.state", "resolveState", ctx.p.state.s, c),
                  GetWorkflows)
       ELSE Await(Fr("handleAction", "create.default", "getWorkflows", <<>>, c),
                  GetWorkflows)

\* handlers.ts 201-204: the first unstarted state of the first workflow.
createDefaultState(ctx, workflows) ==
    IF Len(workflows) > 0
    THEN LET states == workflows[1].states
             readyState == findIndex([k \in 1..Len(states) |-> states[k].type = "unstarted"])
         IN IF readyState # 0
            THEN withField(ctx, "workflow_state_id", states[readyState].id)
            ELSE ctx
    ELSE ctx

\* handleEpic asking for epic 0 when the id cannot be resolved.
handleEpic_zeroOnInvalid(ctx) ==
    LET epicId == resolveId(ctx.p.id.s)
        num == IF epicId.kind = "error" THEN 0 ELSE epicId.val
    IN Await(Fr("handleAction", "epic.get", "getEpic", <<>>, [ctx EXCEPT !.num = num]),
             Req(m_GET, Path("/epics/", num, ""), NoBody))

\* handlers.ts 220-222.
handleEpic(ctx) ==
    LET epicId == resolveId(ctx.p.id.s)
    IN IF epicId.kind = "error" THEN fail(epicId.msg)
       ELSE Await(Fr("handleAction", "epic.get", "getEpic", <<>>,
                     [ctx EXCEPT !.num = epicId.val]),
                  Req(m_GET, Path("/epics/", epicId.val, ""), NoBody))

s_slash == <<"/">>

\* handlers.ts 235-242; request() sends a body only when it is truthy (client.ts 36).
handleApi(ctx) ==
    IF ~occursAt(ctx.p.path.s, s_slash, 1) THEN fail("Path must start with /")
    ELSE Await(Fr("handleAction", "api.request", "request", <<>>, ctx),
               Req(toUpperCase(ctx.p.method.s), RawPath(ctx.p.path.s),
                   IF truthy(ctx.p.query) THEN Body(ctx.p.query) ELSE NoBody))

\* handlers.ts 246-274.
handleHelp == [kind |-> "help"]

\* handleAction up to its first await (handlers.ts 16-72).
handleAction(params) ==
    LET ctx == Ctx(params)
    IN CASE params.action = "search" -> handleSearch(ctx)
         [] params.action = "get" ->
                IF ~truthy(params.id) THEN fail("id required") ELSE handleGet(ctx)
         [] params.action = "update" ->
                IF ~truthy(params.id) THEN fail("id required") ELSE handleUpdate(ctx)
         [] params.action = "comment" ->
                IF ~truthy(params.id) \/ ~truthy(params.body)
                THEN fail("id and body required") ELSE handleComment(ctx)
         [] params.action = "create" ->
                IF ~truthy(params.name) THEN fail("name required") ELSE handleCreate(ctx)
         [] params.action = "epic" ->
                IF ~truthy(params.id) THEN fail("id required") ELSE handleEpic(ctx)
         [] params.action = "api" ->
                IF ~truthy(params.method) \/ ~truthy(params.path)
                THEN fail("method and path required") ELSE handleApi(ctx)
         [] params.action = "help" -> reply(handleHelp)
         [] OTHER -> fail(<<"Unknown action: ", params.action>>)

\* handleAction from the await fr on, when the awaited client method returned v.
handleActionResume(fr, v) ==
    LET ctx == fr.ctx
    IN CASE fr.at = "search.default" ->
                searchPost([ctx EXCEPT !.input = [owner_ids |-> <<v.id>>,
                                                  archived |-> JBool(FALSE)]])
         [] fr.at = "search.ownerMe" -> searchState(withField(ctx, "owner_ids", <<v.id>>))
         [] fr.at = "search.owner" ->
                searchState(IF memberTruthy(v) THEN withField(ctx, "owner_ids", <<v.id>>)
                            ELSE ctx)
         [] fr.at = "search.state" ->
                searchRest(IF stateTruthy(v) THEN withField(ctx, "workflow_state_id", v.id)
                           ELSE ctx)
         [] fr.at = "search.post" -> reply(formatStoryList(v))
         \* handlers.ts 119-125
         [] fr.at = "get.story" ->
                IF ~truthy(v) THEN reply([kind |-> "storyNotFound", id |-> ctx.num])
                ELSE Await(Fr("handleAction", "get.stateName", "getStateName",
                              v.workflow_state_id, [ctx EXCEPT !.obj = v]),
                           GetWorkflows)
         [] fr.at = "get.stateName" ->
                reply([kind |-> "story", story |-> ctx.obj, stateName |-> v,
                       comments |-> slice0(ctx.obj.comments, 5)])
         \* handlers.ts 144-149
         [] fr.at = "update.state" ->
                IF stateTruthy(v) THEN updateRest(withField(ctx, "workflow_state_id", v.id))
                ELSE Await(Fr("handleAction", "update.allStates", "getAllStateNames",
                              <<>>, ctx),
                           GetWorkflows)
         [] fr.at = "update.allStates" ->
                reply([kind |-> "stateNotFound", state |-> ctx.p.state.s, valid |-> v])
         \* handlers.ts 161-162
         [] fr.at = "update.owner" -> updateOwnerResolved(ctx, v)
         \* handlers.ts 169
         [] fr.at = "update.put" ->
                reply([kind |-> "updated", id |-> v.id, url |-> v.app_url])
         \* handlers.ts 179
         [] fr.at = "comment.post" -> reply([kind |-> "commented", id |-> ctx.num])
         \* handlers.ts 197
         [] fr.at = "create.state" ->
                createRest(IF stateTruthy(v) THEN withField(ctx, "workflow_state_id", v.id)
                           ELSE ctx)
         [] fr.at = "create.default" -> createRest(createDefaultState(ctx, v))
         \* handlers.ts 213
         [] fr.at = "create.owner" ->
                createPost(IF memberTruthy(v) THEN withField(ctx, "owner_ids", <<v.id>>)
                           ELSE ctx)
         \* handlers.ts 217
         [] fr.at = "create.post" ->
                reply([kind |-> "created", id |-> v.id, name |-> v.name, url |-> v.app_url])
         \* handlers.ts 223-232
         [] fr.at = "epic.get" ->
                IF ~truthy(v) THEN reply([kind |-> "epicNotFound", id |-> ctx.num])
                ELSE Await(Fr("handleAction", "epic.search", "searchStories", <<>>,
                              [ctx EXCEPT !.obj = v]),
                           Req(m_POST, Path("/stories/search", 0, ""),
                               Body([epic_ids |-> <<ctx.num>>])))
         [] fr.at = "epic.search" ->
                reply([kind |-> "epic", epic |-> ctx.obj,
                       stories |-> IF Len(v) > 0 THEN formatStoryList(slice0(v, 25))
                                   ELSE [kind |-> "none"]])
         \* handlers.ts 243
         [] fr.at = "api.request" -> reply([kind |-> "json", value |-> v])

\* handleAction without its try/catch: an error reaches the caller.
resume_uncaught(fr, r) ==
    IF fr.top = "client" THEN Finish(r)
    ELSE IF r.kind = "error" THEN Finish(r)
    ELSE handleActionResume(fr, r.val)

\* handleCreate treating a failed state resolution like a state that was not found.
resume_createGoesOn(fr, r) ==
    IF fr.top = "client" THEN Finish(r)
    ELSE IF r.kind = "error"
    THEN IF fr.at = "create.state" THEN createRest(fr.ctx) ELSE fail(r.msg)
    ELSE handleActionResume(fr, r.val)

\* The running call goes on with what the awaited client method returned or threw (r):
\* a client method called on its own ends with r; in handleAction a thrown error is
\* caught (handlers.ts 75-77).
resume(fr, r) ==
    IF fr.top = "client" THEN Finish(r)
    ELSE IF r.kind = "error" THEN fail(r.msg)
    ELSE handleActionResume(fr, r.val)

\* A ShortcutClient that keeps the request it issued last.
clientAfter_keepsLast(cl, st) == [token |-> cl.token, last |-> st.req]

\* The fields of the client after a step of one of its methods: no method assigns a
\* field (client.ts 25-179).
clientAfter(cl, st) == cl

\* The step st of the running call, on the answer to req (NoRequest: on its start).
Apply(st, req, events) ==
    /\ client' = clientAfter(client, st)
    /\ frame' = st.frame
    /\ outcome' = st.outcome
    /\ outstanding' = (outstanding \ {req}) \cup (IF st.req = NoRequest THEN {} ELSE {st.req})
    /\ log' = IF st.req = NoRequest THEN log ELSE Append(log, st.req)
    /\ resolved' = resolved \o events

\* The remote side answers a fetch with a 2xx status and a body.
RespondOk ==
    \E req \in outstanding : \E v \in okValues(req) :
        \E r \in {clientResult(frame, v)} : \E st \in {resume(frame, r)} :
            /\ Apply(st, req, resolverEvent(frame, r))
            /\ UNCHANGED <<task, remote, idVars, normVars, httpVars>>

\* The remote side answers a fetch with 429.
RespondRateLimit ==
    \E req \in outstanding : \E st \in {resume(frame, Threw(s_rate_limit))} :
        /\ Apply(st, req, <<requestFailed(req, 429)>>)
        /\ UNCHANGED <<task, remote, idVars, normVars, httpVars>>

\* The remote side answers a fetch with another non-2xx status.
RespondHttpError ==
    \E req \in outstanding : \E e \in HttpErrors :
        \E st \in {resume(frame, Threw(apiError(e.status, e.text)))} :
            /\ Apply(st, req, <<requestFailed(req, e.status)>>)
            /\ UNCHANGED <<task, remote, idVars, normVars, httpVars>>

\* The remote side answers a fetch with a 2xx status and an empty body.
RespondEmpty ==
    \E req \in outstanding : \E r \in {nullResult(frame)} : \E st \in {resume(frame, r)} :
        /\ Apply(st, req, <<[fn |-> "emptyBody", arg |-> req]>>)
        /\ UNCHANGED <<task, remote, idVars, normVars, httpVars>>

(***************************************************************************)
(* client.resolveState(stateName), called on its own.                      *)
(***************************************************************************)
q_Done == <<"D", "o", "n", "e">>
q_wip == <<"w", "i", "p">>
q_ready == <<"r", "e", "a", "d", "y">>
q_backlog == <<"b", "a", "c", "k", "l", "o", "g">>
q_do == <<"d", "o">>
q_xyz == <<"x", "y", "z">>
StateQueries == {q_Done, q_wip, q_ready, q_backlog, q_do, q_xyz}

StateInit ==
    /\ remote \in {[workflows |-> w, members |-> <<>>, me |-> CurrentMember] :
                      w \in WorkflowLists}
    /\ client = ShortcutClient(s_tok)
    /\ task = NoTask
    /\ frame = IdleFrame
    /\ outstanding = {}
    /\ log = <<>>
    /\ resolved = <<>>
    /\ outcome = NotCalled
    /\ IdUnused
    /\ NormUnused
    /\ HttpUnused

\* client.ts 63-64: resolveState starts by fetching the workflows.
CallResolveState ==
    /\ task = NoTask
    /\ \E name \in StateQueries :
          /\ task' = [fn |-> "resolveState", arg |-> name]
          /\ Apply(Await(Fr("client", "return", "resolveState", name, <<>>), GetWorkflows),
                   NoRequest, <<>>)
    /\ UNCHANGED <<remote, idVars, normVars, httpVars>>

StateNext == CallResolveState \/ RespondOk \/ RespondRateLimit \/ RespondHttpError

SpecState == StateInit /\ [][StateNext]_vars

(***************************************************************************)
(* client.resolveState(stateName) on workspaces whose workflows share      *)
(* state names.                                                            *)
(***************************************************************************)
n_done == <<"d", "o", "n", "e">>

\* The state names of one workflow.
DupNameLists == {<<n_Undone>>, <<n_Done>>, <<n_done, n_Done>>, <<n_In_Progress, n_Done>>}
DupWorkflowLists == {mkWorkflows(nl) : nl \in SeqsUpTo(DupNameLists, MaxDupWorkflows)}

DupInit ==
    /\ remote \in {[workflows |-> w, members |-> <<>>, me |-> CurrentMember] :
                      w \in DupWorkflowLists}
    /\ client = ShortcutClient(s_tok)
    /\ task = NoTask
    /\ frame = IdleFrame
    /\ outstanding = {}
    /\ log = <<>>
    /\ resolved = <<>>
    /\ outcome = NotCalled
    /\ IdUnused
    /\ NormUnused
    /\ HttpUnused

SpecDup == DupInit /\ [][StateNext]_vars

(***************************************************************************)
(* client.resolveMember(input), called on its own.                         *)
(***************************************************************************)
q_Me == <<"M", "e">>
q_Ann == <<"A", "n", "n">>
q_jim == <<"j", "i", "m">>
q_zed == <<"z", "e", "d">>
MemberQueries == {s_me, q_Me, q_Ann, q_jim, q_zed}

MemberInit ==
    /\ remote \in {[workflows |-> <<>>, members |-> m, me |-> CurrentMember] :
                      m \in MemberLists}
    /\ client = ShortcutClient(s_tok)
    /\ task = NoTask
    /\ frame = IdleFrame
    /\ outstanding = {}
    /\ log = <<>>
    /\ resolved = <<>>
    /\ outcome = NotCalled
    /\ IdUnused
    /\ NormUnused
    /\ HttpUnused

CallResolveMember ==
    /\ task = NoTask
    /\ \E input \in MemberQueries :
          /\ task' = [fn |-> "resolveMember", arg |-> input]
          /\ Apply(resolveMemberStart("client", "return", input, <<>>), NoRequest, <<>>)
    /\ UNCHANGED <<remote, idVars, normVars, httpVars>>

MemberNext == CallResolveMember \/ RespondOk \/ RespondRateLimit \/ RespondHttpError

SpecMember == MemberInit /\ [][MemberNext]_vars

(***************************************************************************)
(* The tool: handleAction(params, client), invoked again and again on a    *)
(* workspace that other users change meanwhile.                            *)
(***************************************************************************)
v_sc_704 == JStr(<<"s", "c", "-", "7", "0", "4">>)
v_sc == JStr(<<"s", "c", "-">>)
v_Done == JStr(q_Done)
v_xyz == JStr(q_xyz)
v_me == JStr(s_me)
v_Ann == JStr(q_Ann)
v_zed == JStr(q_zed)
v_auth == JStr(<<"a", "u", "t", "h">>)
v_bug == JStr(<<"b", "u", "g">>)
v_T == JStr(<<"T">>)
v_Fixed == JStr(<<"F", "i", "x", "e", "d", "!">>)
v_get == JStr(<<"g", "e", "t">>)
v_slash_workflows == JStr(<<"/", "w", "o", "r", "k", "f", "l", "o", "w", "s">>)
v_workflows == JStr(<<"w", "o", "r", "k", "f", "l", "o", "w", "s">>)

\* ShortcutParamsType (types.ts 96-109) with the action alone.
Params(action) ==
    [action |-> action, query |-> Undefined, id |-> Undefined, state |-> Undefined,
     estimate |-> Undefined, owner |-> Undefined, type |-> Undefined, name |-> Undefined,
     body |-> Undefined, epic |-> Undefined, method |-> Undefined, path |-> Undefined]

IdValues == {Undefined, v_sc_704, v_sc}
StateValues == {Undefined, v_Done, v_xyz}

StructuredQueries ==
    {JObj([owner |-> o, state |-> s, epic |-> e, iteration |-> Undefined,
           type |-> Undefined, archived |-> a]) :
        o \in {Undefined, v_me, v_Ann, v_zed}, s \in StateValues,
        e \in {Undefined, JNum(3)}, a \in {Undefined, JBool(FALSE)}}

SearchParams ==
    {[Params("search") EXCEPT !.query = q] :
        q \in {Undefined, v_auth} \cup StructuredQueries}
GetParams == {[Params("get") EXCEPT !.id = i] : i \in IdValues}
UpdateParams ==
    {[Params("update") EXCEPT !.id = i, !.state = s, !.estimate = e, !.owner = o,
                              !.name = n] :
        i \in IdValues, s \in StateValues, e \in {Undefined, JNum(3)},
        o \in {Undefined, JNull, v_me, v_Ann, v_zed}, n \in {Undefined, v_T}}
CommentParams ==
    {[Params("comment") EXCEPT !.id = i, !.body = b] :
        i \in IdValues, b \in {Undefined, v_Fixed}}
CreateParams ==
    {[Params("create") EXCEPT !.name = n, !.state = s, !.owner = o, !.type = ty,
                              !.estimate = e] :
        n \in {Undefined, v_T}, s \in StateValues, o \in {Undefined, v_me, v_zed},
        ty \in {Undefined, v_bug}, e \in {Undefined, JNum(3)}}
EpicParams == {[Params("epic") EXCEPT !.id = i] : i \in IdValues}
ApiParams ==
    {[Params("api") EXCEPT !.method = m, !.path = pa, !.query = q] :
        m \in {Undefined, v_get}, pa \in {Undefined, v_slash_workflows, v_workflows},
        q \in {Undefined, JObj([name |-> v_T])}}
HelpParams == {Params("help")}

ParamSets ==
    SearchParams \cup GetParams \cup UpdateParams \cup CommentParams \cup CreateParams
        \cup EpicParams \cup ApiParams \cup HelpParams

\* The workspaces the tool runs against.
Workspaces ==
    {[workflows |-> mkWorkflows(nl), members |-> mkMembers(ps), me |-> CurrentMember] :
        nl \in {<<>>, <<<<n_Backlog, n_Done>>>>, <<<<n_In_Progress>>, <<n_Done>>>>},
        ps \in {<<>>, <<p_Joanna, p_Ann>>}}

Init ==
    /\ remote \in Workspaces
    /\ client = ShortcutClient(s_tok)
    /\ task = NoTask
    /\ frame = IdleFrame
    /\ outstanding = {}
    /\ log = <<>>
    /\ resolved = <<>>
    /\ outcome = NotCalled
    /\ IdUnused
    /\ NormUnused
    /\ HttpUnused

\* The MCP tool callback (index.ts 26-29) calls handleAction with validated params.
Invoke ==
    /\ task = NoTask
    /\ \E params \in ParamSets : \E st \in {handleAction(params)} :
          /\ task' = [fn |-> "handleAction", arg |-> params]
          /\ Apply(st, NoRequest, <<>>)
    /\ UNCHANGED <<remote, idVars, normVars, httpVars>>

\* The tool callback hands the ToolResult to the MCP client; nothing of the invocation
\* is kept (the client object holds the token only, client.ts 15-20).
Deliver ==
    /\ task # NoTask
    /\ outcome # NotCalled
    /\ task' = NoTask
    /\ outcome' = NotCalled
    /\ log' = <<>>
    /\ resolved' = <<>>
    /\ UNCHANGED <<client, frame, outstanding, remote, idVars, normVars, httpVars>>

\* Somebody changes the workspace (its workflows or members).
RemoteChange ==
    /\ \E w \in Workspaces : w # remote /\ remote' = w
    /\ UNCHANGED <<client, task, frame, outstanding, log, resolved, outcome,
                   idVars, normVars, httpVars>>

Next ==
    \/ Invoke
    \/ RespondOk
    \/ RespondRateLimit
    \/ RespondHttpError
    \/ RespondEmpty
    \/ Deliver
    \/ RemoteChange

Spec == Init /\ [][Next]_vars

(***************************************************************************)
(* The worker's fetch handler (index.ts 66-111) and the tool callback      *)
(* (index.ts 26-29).                                                       *)
(***************************************************************************)
\* The action enum of ShortcutParams (types.ts 97).
ActionEnum == {"search", "get", "update", "comment", "create", "epic", "api", "help"}

\* The actions of the README's table (README.md 14-26).
ReadmeActions ==
    {"search", "get", "update", "comment", "create", "stories", "workflows", "members",
     "projects", "api", "help"}

\* ShortcutParams.parse(args) (index.ts 27): a ZodError for an action outside the enum.
parseParams_anyAction(args) == Returned(args)
parseParams(args) ==
    IF args.action \in ActionEnum THEN Returned(args)
    ELSE Threw(<<"Invalid enum value", args.action>>)

\* The tool callback (index.ts 26-29) up to its first await.
toolCallback(args) ==
    IF parseParams(args).kind = "error" THEN Finish(parseParams(args))
    ELSE handleAction(parseParams(args).val)

\* createServer(token) (index.ts 17-32).
createServer(token) == [created |-> TRUE, token |-> token]

healthResponse == [status |-> 200, body |-> "healthy"]
missingTokenResponse == [status |-> 401, body |-> "Missing X-Shortcut-Token header"]
notFoundResponse == [status |-> 404, body |-> "Not Found"]
\* What createMcpHandler(server) answers: the MCP transport's response.
mcpResponse == [status |-> 200, body |-> "mcp"]

\* fetch creating a server whether or not the request carries a token.
fetch_tokenOptional(request) ==
    IF request.pathname = "/health" \/ request.pathname = "/"
    THEN [response |-> healthResponse, server |-> NoServer, dispatch |-> FALSE]
    ELSE IF request.pathname = "/mcp"
    THEN [response |-> mcpResponse, server |-> createServer(request.token),
          dispatch |-> TRUE]
    ELSE [response |-> notFoundResponse, server |-> NoServer, dispatch |-> FALSE]

\* fetch (index.ts 66-111): the Response, the server created, and whether the request is
\* handed to the MCP handler.
fetch(request) ==
    IF request.pathname = "/health" \/ request.pathname = "/"
    THEN [response |-> healthResponse, server |-> NoServer, dispatch |-> FALSE]
    ELSE IF request.pathname = "/mcp"
    THEN IF ~truthy(request.token)
         THEN [response |-> missingTokenResponse, server |-> NoServer, dispatch |-> FALSE]
         ELSE [response |-> mcpResponse, server |-> createServer(request.token),
               dispatch |-> TRUE]
    ELSE [response |-> notFoundResponse, server |-> NoServer, dispatch |-> FALSE]

Pathnames == {"/health", "/", "/mcp", "/mcp/", "/other"}
\* request.headers.get("X-Shortcut-Token"): null without the header.
Tokens == {JNull, JStr(<<>>), JStr(s_tok)}

\* The arguments of the tool call the request carries: one call for every action of the
\* enum and of the README.
ToolArgs ==
    {Params(a) : a \in {"search", "help", "stories", "workflows", "members", "projects"}}
    \cup {[Params(a) EXCEPT !.id = v_sc_704] : a \in {"get", "epic"}}
    \cup {[Params("update") EXCEPT !.id = v_sc_704, !.state = v_Done],
          [Params("comment") EXCEPT !.id = v_sc_704, !.body = v_Fixed],
          [Params("create") EXCEPT !.name = v_T, !.type = v_bug],
          [Params("api") EXCEPT !.method = v_get, !.path = v_slash_workflows]}

HttpRequests ==
    {[pathname |-> pa, token |-> tk, args |-> a] :
        pa \in Pathnames, tk \in Tokens, a \in ToolArgs}

FetchInit ==
    /\ httpRequest \in HttpRequests
    /\ httpResponse = NotCalled
    /\ server = NoServer
    /\ remote \in Workspaces
    /\ client = NoClient
    /\ task = NoTask
    /\ frame = IdleFrame
    /\ outstanding = {}
    /\ log = <<>>
    /\ resolved = <<>>
    /\ outcome = NotCalled
    /\ IdUnused
    /\ NormUnused

\* The worker handles the request; a request handed to the MCP handler runs the tool
\* callback with the arguments of its tool call.
Fetch ==
    /\ httpResponse = NotCalled
    /\ \E r \in {fetch(httpRequest)} :
          /\ httpResponse' = r.response
          /\ server' = r.server
          /\ IF r.dispatch
             THEN \E st \in {toolCallback(httpRequest.args)} :
                     /\ client' = clientAfter(ShortcutClient(r.server.token), st)
                     /\ task' = [fn |-> "shortcut", arg |-> httpRequest.args]
                     /\ frame' = st.frame
                     /\ outcome' = st.outcome
                     /\ outstanding' = IF st.req = NoRequest THEN {} ELSE {st.req}
                     /\ log' = IF st.req = NoRequest THEN <<>> ELSE <<st.req>>
                     /\ resolved' = <<>>
             ELSE UNCHANGED <<client, task, frame, outstanding, log, resolved, outcome>>
    /\ UNCHANGED <<httpRequest, remote, idVars, normVars>>

FetchNext == Fetch \/ RespondOk \/ RespondRateLimit \/ RespondHttpError

SpecFetch == FetchInit /\ [][FetchNext]_vars


(***************************************************************************)
(* Properties of resolveId (SpecId).                                       *)
(***************************************************************************)
hasDigit(s) == \E k \in 1..Len(s) : s[k] \in Digits

\* The number written by the maximal run of digits of s that starts at d.
numberAt(s, d) == parseInt(SubSeq(s, d, d + digitRunLen(s, d) - 1))

\* The indices of the digits that follow a /story/ segment of s.
storySegmentDigits(s) ==
    {i + Len(s_slash_story_slash) : i \in
        {j \in 1..Len(s) : /\ occursAt(toLowerCase(s), s_slash_story_slash, j)
                           /\ digitRunLen(s, j + Len(s_slash_story_slash)) >= 1}}

\* The end of the path segment that starts at j: the index of the next "/", or 0.
segmentEnd(s, j) ==
    LET slashes == {k \in j..Len(s) : s[k] = "/"}
    IN IF slashes = {} THEN 0 ELSE CHOOSE k \in slashes : \A m \in slashes : k <= m

\* The pairs <<i, d>>: shortcut.com/<segment>/story/<digits> reads from index i of s,
\* <segment> being one non-empty path segment, and <digits> starts at index d.
shortcutStoryUrls(s) ==
    {<<i, segmentEnd(s, i + Len(s_shortcut_com_slash)) + Len(s_slash_story_slash)>> : i \in
        {j \in 1..Len(s) :
            LET seg == j + Len(s_shortcut_com_slash)
                e == segmentEnd(s, seg)
            IN /\ occursAt(toLowerCase(s), s_shortcut_com_slash, j)
               /\ e > seg
               /\ occursAt(toLowerCase(s), s_slash_story_slash, e)
               /\ digitRunLen(s, e + Len(s_slash_story_slash)) >= 1}}

\* C1, as stated: whenever the input holds a segment /story/<digits>, under any host
\* and after any path, resolveId returns the number of such a segment.
C1_StorySegmentUnderAnyHost ==
    (idResult # NotCalled /\ storySegmentDigits(idInput) # {}) =>
        /\ idResult.kind = "ok"
        /\ \E d \in storySegmentDigits(idInput) : idResult.val = numberAt(idInput, d)

\* C1, amended: whenever the input holds shortcut.com/<segment>/story/<digits> (in any
\* letter case, <segment> one non-empty path segment), resolveId returns the number
\* <digits> of the leftmost such URL, whatever digits occur before it.
C1_StoryUrlOnShortcutHost ==
    (idResult # NotCalled /\ shortcutStoryUrls(idInput) # {}) =>
        \E u \in shortcutStoryUrls(idInput) :
            /\ \A w \in shortcutStoryUrls(idInput) : u[1] <= w[1]
            /\ idResult = Returned(numberAt(idInput, u[2]))

\* A story URL whose organisation segment holds a digit, resolved to the story's id.
C1_Witness ==
    /\ idResult = Returned(7)
    /\ \E u \in shortcutStoryUrls(idInput) : \E k \in 1..(u[2] - 1) : idInput[k] \in Digits

\* C10: resolveId throws "Invalid ID: <input>" for every input without a digit, and
\* returns a non-negative number for every input with one.
C10_DigitDecidesFailure ==
    idResult # NotCalled =>
        IF hasDigit(idInput)
        THEN idResult.kind = "ok" /\ idResult.val \in Nat
        ELSE idResult = Threw(<<s_Invalid_ID, idInput>>)

\* A non-empty input without a digit, rejected.
C10_Witness ==
    /\ idResult.kind = "error"
    /\ idInput # <<>>
    /\ ~hasDigit(idInput)

\* shortcutStoryUrls for the epic pattern: shortcut.com/<segment>/epic/<digits>.
shortcutEpicUrls(s) ==
    {<<i, segmentEnd(s, i + Len(s_shortcut_com_slash)) + Len(s_slash_epic_slash)>> : i \in
        {j \in 1..Len(s) :
            LET seg == j + Len(s_shortcut_com_slash)
                e == segmentEnd(s, seg)
            IN /\ occursAt(toLowerCase(s), s_shortcut_com_slash, j)
               /\ e > seg
               /\ occursAt(toLowerCase(s), s_slash_epic_slash, e)
               /\ digitRunLen(s, e + Len(s_slash_epic_slash)) >= 1}}

\* The index of the digits of the leftmost URL of urls.
leftmostDigits(urls) ==
    (CHOOSE u \in urls : \A w \in urls : u[1] <= w[1])[2]

\* The index of the first digit of s.
firstDigit(s) ==
    CHOOSE k \in 1..Len(s) : s[k] \in Digits /\ \A m \in 1..(k - 1) : s[m] \notin Digits

\* C11: resolveId applies its patterns in strict priority order: the leftmost story URL
\* wins wherever an epic URL or other digits stand; without a story URL the leftmost epic
\* URL wins over other digits; without either the first run of digits is returned.
C11_StrictPriorityOrder ==
    (idResult # NotCalled /\ hasDigit(idInput)) =>
        idResult = Returned(numberAt(idInput,
            IF shortcutStoryUrls(idInput) # {} THEN leftmostDigits(shortcutStoryUrls(idInput))
            ELSE IF shortcutEpicUrls(idInput) # {}
            THEN leftmostDigits(shortcutEpicUrls(idInput))
            ELSE firstDigit(idInput)))

\* An input with a prefixed id, then an epic URL, then a story URL: the story's id.
C11_Witness ==
    /\ idInput = u_sc_5 \o u_epic_3 \o u_story_7
    /\ idResult = Returned(7)

(***************************************************************************)
(* Properties of the search-response normalizer (SpecNorm).                *)
(***************************************************************************)
\* C4: the normalizer never fails: an array is returned as it is, an object whose data
\* is an array yields that array, and any other value yields the empty sequence.
C4_NormalizerNeverFails ==
    normClient # NotCalled =>
        normClient =
            IF payload.tag = "array" THEN Returned(payload.items)
            ELSE IF /\ payload.tag = "object"
                    /\ "data" \in DOMAIN payload.fields
                    /\ payload.fields["data"].tag = "array"
            THEN Returned(payload.fields["data"].items)
            ELSE Returned(<<>>)

(***************************************************************************)
(* Properties of resolveState (SpecState).                                 *)
(***************************************************************************)
\* Every state of the workflows, workflow after workflow, in the listed order.
RECURSIVE allStates(_)
allStates(workflows) ==
    IF workflows = <<>> THEN <<>> ELSE Head(workflows).states \o allStates(Tail(workflows))

stateReturned == task.fn = "resolveState" /\ outcome.kind = "ok"
askedName == toLowerCase(task.arg)
statesEqual(name) == {i \in 1..Len(allStates(remote.workflows)) :
                        toLowerCase(allStates(remote.workflows)[i].name) = name}
statesContaining(name) == {i \in 1..Len(allStates(remote.workflows)) :
                             includes(toLowerCase(allStates(remote.workflows)[i].name), name)}
\* The id of the first state, in that order, among the indices in hits.
firstOf(hits) ==
    allStates(remote.workflows)[CHOOSE i \in hits : \A j \in hits : i <= j].id

\* The canonical labels some synonym of which is contained in name or contains it, and
\* that some state's name contains, in table order.
labelsFor(name) ==
    {k \in 1..Len(aliases) :
        /\ \E a \in 1..Len(aliases[k].alts) :
              includes(name, aliases[k].alts[a]) \/ includes(aliases[k].alts[a], name)
        /\ statesContaining(aliases[k].canonical) # {}}

\* The workflows that hold a state whose name equals name.
workflowsEqual(name) ==
    {w \in 1..Len(remote.workflows) :
        \E k \in 1..Len(remote.workflows[w].states) :
            toLowerCase(remote.workflows[w].states[k].name) = name}

\* C13: when states of several workflows have the name asked for, resolveState returns
\* the first of them: the earliest such state of the earliest such workflow.
C13_EarliestEqualStateWins ==
    (stateReturned /\ Cardinality(workflowsEqual(askedName)) >= 2) =>
        outcome.val = Found(firstOf(statesEqual(askedName)))

\* C2: a state that only contains the name is returned only when no state of any
\* workflow equals it: if some state equals the name, the id of such a state is returned.
C2_ExactMatchInAnyWorkflowWins ==
    (stateReturned /\ statesEqual(askedName) # {}) =>
        /\ outcome.val.found
        /\ \E i \in statesEqual(askedName) :
              outcome.val.id = allStates(remote.workflows)[i].id

\* C3, as stated: "ready", with no state equal to or containing "ready" and a state
\* named "Backlog", resolves to the id of the "Backlog" state.
C3_ReadyResolvesToBacklog ==
    (/\ stateReturned
     /\ task.arg = q_ready
     /\ statesContaining(s_ready) = {}
     /\ statesEqual(s_backlog) # {}) =>
        /\ outcome.val.found
        /\ \E i \in statesEqual(s_backlog) :
              outcome.val.id = allStates(remote.workflows)[i].id

\* C3, amended: "backlog", with no state equal to or containing "backlog" and a state
\* whose name contains "ready", resolves to the id of the first such state; and
\* "ready" with no state containing "ready" is not found.
C3_BacklogResolvesToReady ==
    /\ (/\ stateReturned
        /\ task.arg = q_backlog
        /\ statesContaining(s_backlog) = {}
        /\ statesContaining(s_ready) # {}) =>
            outcome.val = Found(firstOf(statesContaining(s_ready)))
    /\ (/\ stateReturned
        /\ task.arg = q_ready
        /\ statesContaining(s_ready) = {}) =>
            outcome.val = NotFound

\* "backlog" resolved to a "Ready" state of a workspace without a "Backlog" state.
C3_Witness ==
    /\ stateReturned
    /\ task.arg = q_backlog
    /\ statesContaining(s_backlog) = {}
    /\ outcome.val.found
    /\ \E i \in statesEqual(s_ready) : outcome.val.id = allStates(remote.workflows)[i].id

\* C8: when no state equals or contains the name, the first canonical label (in the
\* order done, in progress, ready) that has a synonym contained in the name or
\* containing it, and that some state's name contains, decides: the first state whose
\* name contains it is returned. "wip" resolves to the first "in progress" state.
C8_AliasTier ==
    (stateReturned /\ statesContaining(askedName) = {}) =>
        /\ labelsFor(askedName) # {} =>
              \E k \in labelsFor(askedName) :
                  /\ \A m \in labelsFor(askedName) : k <= m
                  /\ outcome.val = Found(firstOf(statesContaining(aliases[k].canonical)))
        /\ (task.arg = q_wip /\ statesContaining(s_in_progress) # {}) =>
              outcome.val = Found(firstOf(statesContaining(s_in_progress)))

\* "do" is contained in synonyms of all three labels; no state contains "done", so
\* the "done" label is skipped and a later label resolves the name.
C8_Witness ==
    /\ stateReturned
    /\ task.arg = q_do
    /\ statesContaining(askedName) = {}
    /\ statesContaining(s_done) = {}
    /\ outcome.val.found

\* C9: resolveState returns NotFound exactly when no state equals the name, contains
\* it, or contains a canonical label related to it; an id it returns is the id of a
\* state of the workflows.
C9_NotFoundIffUnrelated ==
    stateReturned =>
        /\ outcome.val = NotFound <=>
              (statesContaining(askedName) = {} /\ labelsFor(askedName) = {})
        /\ outcome.val.found =>
              \E i \in 1..Len(allStates(remote.workflows)) :
                  outcome.val.id = allStates(remote.workflows)[i].id

\* A name that nothing relates to the states of a workspace that has states.
C9_Witness ==
    /\ stateReturned
    /\ outcome.val = NotFound
    /\ Len(allStates(remote.workflows)) >= 2

(***************************************************************************)
(* Properties of resolveMember (SpecMember).                               *)
(***************************************************************************)
memberReturned == task.fn = "resolveMember" /\ outcome.kind = "ok"
\* The positions of the members whose name or handle contains the input.
membersMatching(input) ==
    {i \in 1..Len(remote.members) :
        \/ includes(toLowerCase(remote.members[i].profile.name), toLowerCase(input))
        \/ includes(toLowerCase(remote.members[i].profile.mention_name), toLowerCase(input))}

\* C6: resolveMember("me") returns the id of the current member and never fetches
\* the member list.
C6_MeBypassesMemberList ==
    (task.fn = "resolveMember" /\ task.arg = s_me) =>
        /\ GetMembers \notin outstanding
        /\ \A k \in 1..Len(log) : log[k] # GetMembers
        /\ outcome.kind = "ok" => outcome.val = Found(remote.me.id)

\* "me" resolved while a member of the list has "me" in its name.
C6_Witness ==
    /\ memberReturned
    /\ task.arg = s_me
    /\ membersMatching(s_me) # {}
    /\ outcome.val = Found(remote.me.id)

\* C7: for an input other than "me", the first member of the list whose name or
\* handle contains the input is returned, and NotFound exactly when there is none.
C7_FirstContainingMember ==
    (memberReturned /\ task.arg # s_me) =>
        IF membersMatching(task.arg) = {}
        THEN outcome.val = NotFound
        ELSE \E i \in membersMatching(task.arg) :
                /\ \A j \in membersMatching(task.arg) : i <= j
                /\ outcome.val = Found(remote.members[i].id)

\* "Ann" resolved to "Joanna", who precedes the member named "Ann".
C7_Witness ==
    /\ memberReturned
    /\ task.arg = q_Ann
    /\ Len(remote.members) >= 2
    /\ remote.members[1].profile = p_Joanna
    /\ remote.members[2].profile = p_Ann
    /\ outcome.val = Found(remote.members[1].id)


(***************************************************************************)
(* Properties of the action handlers (Spec).                               *)
(***************************************************************************)
\* resolveState returned NotFound to the running invocation.
stateNotFound == \E k \in 1..Len(resolved) :
                    resolved[k].fn = "resolveState" /\ ~resolved[k].result.found

\* The requests of the running invocation that follow its first workflows fetch (the
\* one resolveState made) and are not fetches of reference data.
requestsAfterResolveState ==
    {k \in 2..Len(log) : log[k] \notin {GetWorkflows, GetMembers, GetCurrentMember}}

\* C5: when resolveState returned NotFound for the state name given to an action, the
\* action does not go on to its search, update or create request, and its reply, unless
\* it reports a failure of the remote side, lists the valid state names.
C5_StateNotFoundListsValidNames ==
    (task.fn = "handleAction" /\ stateNotFound) =>
        /\ requestsAfterResolveState = {}
        /\ (outcome # NotCalled /\ "isError" \notin DOMAIN outcome.val) =>
              outcome.val.content.kind = "stateNotFound"


\* The running invocation is of one of the actions that take an id, and its id is
\* missing or holds no digit.
idUnusable ==
    /\ task.fn = "handleAction"
    /\ task.arg.action \in {"get", "update", "comment", "epic"}
    /\ \/ task.arg.id = Undefined
       \/ task.arg.id.tag = "string" /\ ~hasDigit(task.arg.id.s)

isErrorReply(out) == out.kind = "ok" /\ "isError" \in DOMAIN out.val /\ out.val.isError

\* C12: get, update, comment and epic with a missing id or an id without a digit are
\* rejected with an error reply, and the invocation issues no remote request.
C12_UnusableIdRejectedWithoutRequest ==
    idUnusable => /\ log = <<>>
                  /\ outstanding = {}
                  /\ isErrorReply(outcome)

\* An epic asked for with the id "sc-": rejected as an invalid id.
C12_Witness ==
    /\ idUnusable
    /\ task.arg.action = "epic"
    /\ task.arg.id = v_sc
    /\ isErrorReply(outcome)
    /\ outcome.val.content.message = <<s_Invalid_ID, v_sc.s>>


\* A remote request of the running invocation failed (429 or another non-2xx status),
\* or was answered with an empty body that the code could not use.
requestFailures == {k \in 1..Len(resolved) : resolved[k].fn = "request"}
emptyBodies == {k \in 1..Len(resolved) : resolved[k].fn = "emptyBody"}

\* C16: handleAction never throws: every invocation ends with a ToolResult; after a
\* failed remote request the result has isError and a text that starts with "Error: ",
\* every result with isError has such a text, and a result without isError has not.
C16_AlwaysAToolResult ==
    (task.fn = "handleAction" /\ outcome # NotCalled) =>
        /\ outcome.kind = "ok"
        /\ "content" \in DOMAIN outcome.val
        /\ requestFailures # {} => isErrorReply(outcome)
        /\ isErrorReply(outcome) <=> outcome.val.content.kind = "error"
        /\ "isError" \in DOMAIN outcome.val => outcome.val.isError

\* An update whose PUT was answered with an empty body: the TypeError is returned as an
\* error reply.
C16_Witness ==
    /\ task.fn = "handleAction"
    /\ task.arg.action = "update"
    /\ emptyBodies # {}
    /\ outcome = errorResult(s_TypeError_null)

\* resolveMember returned NotFound to the running invocation.
memberNotFound == \E k \in 1..Len(resolved) :
                     resolved[k].fn = "resolveMember.list" /\ ~resolved[k].result.found

\* The requests of the running invocation with the method and the path given.
requestsTo(method, lit) ==
    {k \in 1..Len(log) : log[k].method = method /\ log[k].path.lit = lit}

\* C17: an update whose state or owner was not found issues no PUT, whatever else it
\* was given; a create or a search whose owner was not found goes on: the create issues
\* its POST at once, the search ends (unless a later request fails) after its search
\* request, and neither request has owner_ids.
C17_HardInUpdateSoftElsewhere ==
    task.fn = "handleAction" =>
        /\ (task.arg.action = "update" /\ (stateNotFound \/ memberNotFound)) =>
              /\ requestsTo(m_PUT, "/stories/") = {}
              /\ (outcome # NotCalled /\ ~isErrorReply(outcome)) =>
                    outcome.val.content.kind \in {"stateNotFound", "memberNotFound"}
        /\ (task.arg.action = "create" /\ memberNotFound) =>
              /\ requestsTo(m_POST, "/stories") # {}
              /\ \A k \in requestsTo(m_POST, "/stories") :
                    "owner_ids" \notin DOMAIN log[k].body.fields
        /\ (task.arg.action = "search" /\ memberNotFound) =>
              /\ (outcome # NotCalled /\ ~isErrorReply(outcome)) =>
                    requestsTo(m_POST, "/stories/search") # {}
              /\ \A k \in requestsTo(m_POST, "/stories/search") :
                    "owner_ids" \notin DOMAIN log[k].body.fields

\* An update with a state that resolved, an estimate, a name and an owner nobody has:
\* answered "Could not find member", without a PUT.
C17_Witness ==
    /\ task.fn = "handleAction"
    /\ task.arg.action = "update"
    /\ task.arg.state = v_Done
    /\ task.arg.estimate = JNum(3)
    /\ task.arg.name = v_T
    /\ \E k \in 1..Len(resolved) : resolved[k].fn = "resolveState" /\ resolved[k].result.found
    /\ memberNotFound
    /\ outcome = okResult([kind |-> "memberNotFound", owner |-> q_zed])
    /\ requestsTo(m_PUT, "/stories/") = {}

\* C18: no remote call is retried: once a remote request of an invocation has failed,
\* the invocation has ended with an error reply, the failed request is the last one it
\* issued, and nothing is in flight.
C18_NothingAfterAFailedRequest ==
    (task.fn = "handleAction" /\ requestFailures # {}) =>
        /\ requestFailures = {Len(resolved)}
        /\ resolved[Len(resolved)].arg = log[Len(log)]
        /\ outstanding = {}
        /\ frame = IdleFrame
        /\ isErrorReply(outcome)

\* A create with a state and an owner whose workflows fetch was answered 429: the fetch
\* is the only request, and the reply is the rate limit error.
C18_Witness ==
    /\ task.fn = "handleAction"
    /\ task.arg.action = "create"
    /\ task.arg.state = v_Done
    /\ task.arg.owner = v_me
    /\ resolved = <<requestFailed(GetWorkflows, 429)>>
    /\ log = <<GetWorkflows>>
    /\ outcome = errorResult(s_rate_limit)

\* The write request of update (PUT /stories/<id>) and of create (POST /stories).
writes == requestsTo(m_PUT, "/stories/") \cup requestsTo(m_POST, "/stories")

\* The invocation was given a state, or an owner to look up.
stateGiven == truthy(task.arg.state)
ownerGiven ==
    IF task.arg.action = "update" THEN task.arg.owner \notin {Undefined, JNull}
    ELSE truthy(task.arg.owner)

\* C19: the requests of an invocation form a chain: at most one is in flight, and it is
\* the one issued last; the write of update and create is the last request of all, and
\* is issued after the resolution of the state (or, in create, the fetch of the default
\* state) and of the owner have completed.
C19_RequestsInSequence ==
    task.fn = "handleAction" =>
        /\ Cardinality(outstanding) <= 1
        /\ \A req \in outstanding : req = log[Len(log)]
        /\ (task.arg.action \in {"update", "create"} /\ writes # {}) =>
              /\ writes = {Len(log)}
              /\ stateGiven =>
                    \E k \in 1..Len(resolved) : resolved[k].fn = "resolveState"
              /\ (task.arg.action = "create" /\ ~stateGiven) => log[1] = GetWorkflows
              /\ ownerGiven =>
                    \E k \in 1..Len(resolved) :
                        resolved[k].fn \in {"resolveMember.me", "resolveMember.list"}

\* An update of the state and the owner: the workflows, then the members, then the PUT,
\* which is in flight.
C19_Witness ==
    /\ task.fn = "handleAction"
    /\ task.arg.action = "update"
    /\ Len(log) = 3
    /\ log[1] = GetWorkflows
    /\ log[2] = GetMembers
    /\ log[3].method = m_PUT
    /\ outstanding = {log[3]}
    /\ DOMAIN log[3].body.fields = {"workflow_state_id", "owner_ids"}

\* The reference data a resolver fetches.
Resolvers == {"resolveState", "resolveMember.me", "resolveMember.list"}
fetchOf(call) ==
    CASE call = "resolveState" -> GetWorkflows
      [] call = "resolveMember.me" -> GetCurrentMember
      [] call = "resolveMember.list" -> GetMembers

\* Between two invocations nothing of the earlier ones is left: the client object has
\* the fields it was constructed with, no continuation is suspended and no request is in
\* flight.
nothingCarried ==
    /\ client = ShortcutClient(s_tok)
    /\ task = NoTask => frame = IdleFrame /\ outstanding = {}

\* A step in which a call of resolveState or resolveMember starts issues one request,
\* the fetch of the call's reference data; no step issues more than one request.
refetches ==
    /\ Len(log') <= Len(log) + 1
    /\ (frame' # frame /\ frame' # IdleFrame /\ frame'.call \in Resolvers) =>
          /\ outstanding' = {fetchOf(frame'.call)}
          /\ log' = (IF task' = task THEN log ELSE <<>>) \o <<fetchOf(frame'.call)>>

relatesTo(name, lower) ==
    \/ toLowerCase(name) = lower
    \/ includes(toLowerCase(name), lower)
    \/ \E k \in 1..Len(aliases) :
          /\ \E a \in 1..Len(aliases[k].alts) :
                includes(lower, aliases[k].alts[a]) \/ includes(aliases[k].alts[a], lower)
          /\ includes(toLowerCase(name), aliases[k].canonical)

\* The running update was answered with the "State ... not found. Valid: ..." reply.
updateStateNotFoundReply ==
    /\ task.fn = "handleAction"
    /\ task.arg.action = "update"
    /\ outcome # NotCalled
    /\ ~isErrorReply(outcome)
    /\ outcome.val.content.kind = "stateNotFound"

\* C21: in update, the "Valid:" list of a "state not found" reply agrees with the
\* resolution that failed: no name of the list equals, contains or alias-matches the
\* requested state name, also when the workflows of the remote side change between the
\* fetch made by resolveState and the fetch made by getAllStateNames.
C21_ValidListAgreesWithResolution ==
    updateStateNotFoundReply =>
        \A k \in 1..Len(outcome.val.content.valid) :
            ~relatesTo(outcome.val.content.valid[k],
                       toLowerCase(outcome.val.content.state))

(***************************************************************************)
(* Properties of the fetch handler and the tool (SpecFetch).               *)
(***************************************************************************)
\* Nothing was done for the request: no server, no tool call, no remote request.
nothingDispatched ==
    /\ server = NoServer
    /\ task = NoTask
    /\ log = <<>>
    /\ outstanding = {}
    /\ outcome = NotCalled

\* C14: /mcp without an X-Shortcut-Token header is answered 401, and no server is
\* created, no action dispatched and no remote request issued; /health and / are
\* answered healthy whatever the token; any other path is answered 404.
C14_TokenRequiredOnMcp ==
    httpResponse # NotCalled =>
        /\ (httpRequest.pathname = "/mcp" /\ httpRequest.token = JNull) =>
              httpResponse.status = 401 /\ nothingDispatched
        /\ httpRequest.pathname \in {"/health", "/"} =>
              httpResponse = healthResponse /\ nothingDispatched
        /\ httpRequest.pathname \notin {"/health", "/", "/mcp"} =>
              httpResponse.status = 404 /\ nothingDispatched

\* A tool call sent to /mcp without the header: answered 401.
C14_Witness ==
    /\ httpRequest.pathname = "/mcp"
    /\ httpRequest.token = JNull
    /\ httpRequest.args.action = "update"
    /\ httpResponse = missingTokenResponse

\* C15: the tool dispatches every action of the README's table to a handler: none is
\* rejected as an invalid or unknown action.
C15_ReadmeActionsDispatched ==
    (task.fn = "shortcut" /\ task.arg.action \in ReadmeActions) =>
        /\ outcome.kind # "error"
        /\ outcome # errorResult(<<"Unknown action: ", task.arg.action>>)

=============================================================================
